---------------------------- MODULE Spec2Model ----------------------------
(***************************************************************************)
(* A model of the RegioJet delay monitor: the API client of                *)
(* regiojet_api.py (RegioJetAPI and main) and the Flask front end of       *)
(* app.py.                                                                 *)
(*                                                                         *)
(* The program keeps no state between calls, so a behaviour is one call:   *)
(* while pc = "start" the surroundings take shape (the reply the upstream  *)
(* API will give to the next HTTP request grows entry by entry or turns    *)
(* into a failure, a caller's route list grows), then one action runs one  *)
(* operation to its end, and the variables hold what the caller can        *)
(* observe of it: the value returned or the error raised, the HTTP         *)
(* requests sent, the text printed and, for the front end, the HTTP        *)
(* response.                                                               *)
(*                                                                         *)
(* Python values: None and a missing dictionary key are the empty tuple,   *)
(* a present value v is <<v>>; a str is a tuple of one-character strings   *)
(* where its characters matter (names, search terms) and a TLA+ string     *)
(* where only its identity does (messages).                                *)
(***************************************************************************)
EXTENDS Integers, Sequences, FiniteSets

VARIABLES
    reply,      \* what the upstream API answers to the next HTTP request
    routesArg,  \* the route list handed to a presentation routine
    pc,         \* "start" before the call, "done" after it
    op,         \* the operation called, with its arguments
    outcome,    \* "none", "returned" or "raised"
    result,     \* the value returned (<<>> when none)
    error,      \* the text of the error raised ("" when none)
    requests,   \* the HTTP requests sent, in order
    stdout,     \* the lines printed to standard output, in order
    stderr,     \* the lines printed to standard error, in order
    response    \* the front end's HTTP response: [status, body]

vars == <<reply, routesArg, pc, op, outcome, result, error, requests,
          stdout, stderr, response>>

---------------------------------------------------------------------------
(* Bounds of the model *)

\* entries of one routes reply: its route records plus their stop entries
MaxEntries == 5

---------------------------------------------------------------------------
(* Python's None / a missing key, and dict.get *)

None == <<>>

Some(v) == <<v>>

\* dict.get(key, default): the value when the key is present, else default
Get(opt, default) == IF opt = None THEN default ELSE opt[1]

---------------------------------------------------------------------------
(* Program constants *)

KARLOVY_VARY_TERMINAL == 17902024
SOKOLOV_TERMINAL == 721181001

\* the station IDs the model's timetables and callers use
StationIds == {KARLOVY_VARY_TERMINAL, SOKOLOV_TERMINAL}

\* limit = 20 of get_arrivals and get_departures, limit = 50 of find_route
DEFAULT_LIMIT == 20
ROUTE_LIMIT == 50

\* the cut of main's "significant delays" and of _format_delay's red
SIGNIFICANT_DELAY == 10

---------------------------------------------------------------------------
(* The upstream API's replies *)

\* One stop entry of connectionStations, the j-th of its route. A timetable's
\* times grow along the route; arrival, departure and platform may be missing.
Stop(j, s, timed) ==
    [stationId |-> s,
     arrival   |-> IF timed THEN Some(10 * j) ELSE None,
     departure |-> IF timed THEN Some(10 * j + 1) ELSE None,
     platform  |-> IF timed THEN Some(j) ELSE None]

\* the delays a route record carries: none (the key is missing), or minutes
DelayOpts == {None, Some(0), Some(15)}

\* One route record of a departures or arrivals reply, the i-th of the reply;
\* the timetables of the model number their routes and leave the label, the
\* free seats and the vehicle standard out.
Route(i, delay, stations) ==
    [number             |-> Some(i),
     label              |-> None,
     delay              |-> delay,
     freeSeatsCount     |-> None,
     vehicleStandard    |-> None,
     connectionStations |-> stations]

\* the ways a request fails: an HTTP error status, a transport failure
\* (connection, DNS, timeout), a body that is not JSON
Failures == {"http_error", "url_error", "bad_json"}

RECURSIVE CountStops(_)
\* the stop entries of a route list
CountStops(board) ==
    IF board = << >> THEN 0
    ELSE Len(Get(Head(board).connectionStations, << >>))
         + CountStops(Tail(board))

\* the entries of a route list
Entries(board) == Len(board) + CountStops(board)

\* The timetable behind the routes endpoints grows by a route, which lists
\* no stops at all (no connectionStations key) or its first stop ...
UpstreamAddsRoute ==
    /\ pc = "start"
    /\ reply.status = "ok"
    /\ reply.kind = "routes"
    /\ \E d \in DelayOpts :
          \/ /\ Entries(reply.body) + 1 <= MaxEntries
             /\ reply' = [reply EXCEPT
                            !.body = Append(@, Route(Len(@) + 1, d, None))]
          \/ /\ Entries(reply.body) + 2 <= MaxEntries
             /\ \E s \in StationIds, timed \in BOOLEAN :
                   reply' = [reply EXCEPT
                      !.body = Append(@, Route(Len(@) + 1, d,
                                         Some(<< Stop(1, s, timed) >>)))]
    /\ UNCHANGED <<routesArg, op, pc, outcome, result, error, requests,
                   stdout, stderr, response>>

\* ... and its last route by a further stop.
UpstreamAddsStop ==
    /\ pc = "start"
    /\ reply.status = "ok"
    /\ reply.kind = "routes"
    /\ reply.body # << >>
    /\ reply.body[Len(reply.body)].connectionStations # None
    /\ Entries(reply.body) + 1 <= MaxEntries
    /\ \E s \in StationIds, timed \in BOOLEAN :
          LET n  == Len(reply.body)
              st == reply.body[n].connectionStations[1]
          IN  reply' = [reply EXCEPT
                          !.body[n].connectionStations =
                              Some(Append(st, Stop(Len(st) + 1, s, timed)))]
    /\ UNCHANGED <<routesArg, op, pc, outcome, result, error, requests,
                   stdout, stderr, response>>

\* The next request fails; a failed request has no body to parse.
UpstreamFails ==
    /\ pc = "start"
    /\ reply.status = "ok"
    /\ \E f \in Failures :
          reply' = [reply EXCEPT !.status = f, !.body = << >>]
    /\ UNCHANGED <<routesArg, op, pc, outcome, result, error, requests,
                   stdout, stderr, response>>

---------------------------------------------------------------------------
(* RegioJetAPI._make_request and the plain queries *)

\* str(e) of the exception a failed request raises
ErrorText(status) ==
    CASE status = "http_error" -> "HTTP Error 503: Service Unavailable"
      [] status = "url_error"  -> "<urlopen error timed out>"
      [] status = "bad_json"   -> "Expecting value: line 1 column 1 (char 0)"
      [] OTHER                 -> ""

\* One printed line: the template printed, and the text and the number put
\* into it ("" and 0 where the template takes none).
Line(tag, text, n) == [tag |-> tag, text |-> text, n |-> n]

\* what the except clauses of _make_request print before they re-raise
Diagnostics(status) ==
    CASE status = "http_error" ->
            << Line("HTTP Error {code}: {reason}", "Service Unavailable", 503),
               Line("Response: {error_body}", "", 0) >>
      [] status = "url_error"  ->
            << Line("URL Error: {reason}", "timed out", 0) >>
      [] status = "bad_json"   ->
            << Line("JSON Decode Error: {e}",
                    "Expecting value: line 1 column 1 (char 0)", 0) >>
      [] OTHER                 -> << >>

\* A call's end: the value returned or the error raised, the requests sent
\* and the lines printed on the way.
Returned(v, sent, printed) ==
    [raised |-> FALSE, value |-> v, error |-> "", sent |-> sent,
     printed |-> printed]

Raised(e, sent, printed) ==
    [raised |-> TRUE, value |-> <<>>, error |-> e, sent |-> sent,
     printed |-> printed]

\* make_request with a failure swallowed: an empty list is returned instead
make_request_default(rep, endpoint) ==
    IF rep.status = "ok"
    THEN Returned(rep.body, << endpoint >>, << >>)
    ELSE Returned(<< >>, << endpoint >>, Diagnostics(rep.status))

\* one GET, answered by rep: the parsed body, or the error re-raised after
\* its diagnostic is printed
make_request(rep, endpoint) ==
    IF rep.status = "ok"
    THEN Returned(rep.body, << endpoint >>, << >>)
    ELSE Raised(ErrorText(rep.status), << endpoint >>, Diagnostics(rep.status))

get_arrivals(rep, station_id, limit) ==
    make_request(rep, [path |-> "arrivals", station |-> station_id,
                       limit |-> limit])

get_departures(rep, station_id, limit) ==
    make_request(rep, [path |-> "departures", station |-> station_id,
                       limit |-> limit])

get_all_locations(rep) ==
    make_request(rep, [path |-> "locations", station |-> 0, limit |-> 0])

---------------------------------------------------------------------------
(* RegioJetAPI.find_route and check_delays *)

\* [s['stationId'] for s in stations]
station_ids(stations) == [j \in 1..Len(stations) |-> stations[j].stationId]

Contains(seq, x) == \E j \in 1..Len(seq) : seq[j] = x

RECURSIVE scan_stops_first(_, _, _, _)
\* scan_stops that stops at the first stop with the origin's ID
scan_stops_first(stations, from_id, to_id, acc) ==
    IF stations = << >> THEN acc
    ELSE LET station == Head(stations)
             a1 == IF /\ station.stationId = from_id
                      /\ acc.departure_time = None
                      /\ acc.departure_platform = None
                   THEN [acc EXCEPT !.departure_time = station.departure,
                                    !.departure_platform = station.platform]
                   ELSE acc
             a2 == IF station.stationId = to_id
                   THEN [a1 EXCEPT !.arrival_time = station.arrival,
                                   !.arrival_platform = station.platform]
                   ELSE a1
         IN  scan_stops_first(Tail(stations), from_id, to_id, a2)

RECURSIVE scan_stops(_, _, _, _)
\* the for loop over a route's stations: every stop with the origin's ID
\* overwrites the departure pair, every stop with the destination's ID the
\* arrival pair; acc is the four variables' values so far
scan_stops(stations, from_id, to_id, acc) ==
    IF stations = << >> THEN acc
    ELSE LET station == Head(stations)
             a1 == IF station.stationId = from_id
                   THEN [acc EXCEPT !.departure_time = station.departure,
                                    !.departure_platform = station.platform]
                   ELSE acc
             a2 == IF station.stationId = to_id
                   THEN [a1 EXCEPT !.arrival_time = station.arrival,
                                   !.arrival_platform = station.platform]
                   ELSE a1
         IN  scan_stops(Tail(stations), from_id, to_id, a2)

\* the summary find_route appends for a route that reaches the destination
route_summary(route, from_id, to_id) ==
    LET stations == Get(route.connectionStations, << >>)
        t == scan_stops(stations, from_id, to_id,
                        [departure_time |-> None, arrival_time |-> None,
                         departure_platform |-> None,
                         arrival_platform |-> None])
    IN  [number             |-> route.number,
         label              |-> route.label,
         delay              |-> Get(route.delay, 0),
         free_seats         |-> Get(route.freeSeatsCount, 0),
         departure_time     |-> t.departure_time,
         arrival_time       |-> t.arrival_time,
         departure_platform |-> t.departure_platform,
         arrival_platform   |-> t.arrival_platform,
         vehicle_standard   |-> route.vehicleStandard,
         all_stations       |-> stations]

\* reaches that admits every route that lists a stop
reaches_anywhere(route, to_id) ==
    station_ids(Get(route.connectionStations, << >>)) # << >>

\* the test that admits a route: to_station_id in station_ids
reaches(route, to_id) ==
    Contains(station_ids(Get(route.connectionStations, << >>)), to_id)

RECURSIVE match_routes(_, _, _)
\* the for loop over the departures
match_routes(departures, from_id, to_id) ==
    IF departures = << >> THEN << >>
    ELSE LET route == Head(departures)
             rest  == match_routes(Tail(departures), from_id, to_id)
         IN  IF reaches(route, to_id)
             THEN << route_summary(route, from_id, to_id) >> \o rest
             ELSE rest

find_route(rep, from_id, to_id, limit) ==
    LET d == get_departures(rep, from_id, limit)
    IN  IF d.raised THEN d
        ELSE [d EXCEPT !.value = match_routes(d.value, from_id, to_id)]

RECURSIVE delayed_more_than(_, _)
\* delayed_at_least with > for >=
delayed_more_than(routes, threshold) ==
    IF routes = << >> THEN << >>
    ELSE IF Head(routes).delay > threshold
         THEN << Head(routes) >> \o delayed_more_than(Tail(routes), threshold)
         ELSE delayed_more_than(Tail(routes), threshold)

\* [r for r in routes if r['delay'] >= threshold]
RECURSIVE delayed_at_least(_, _)
delayed_at_least(routes, threshold) ==
    IF routes = << >> THEN << >>
    ELSE IF Head(routes).delay >= threshold
         THEN << Head(routes) >> \o delayed_at_least(Tail(routes), threshold)
         ELSE delayed_at_least(Tail(routes), threshold)

check_delays(rep, from_id, to_id, threshold) ==
    LET r == find_route(rep, from_id, to_id, ROUTE_LIMIT)
    IN  IF r.raised THEN r
        ELSE IF threshold > 0
             THEN [r EXCEPT !.value = delayed_at_least(r.value, threshold)]
             ELSE r

---------------------------------------------------------------------------
(* str: lower() and the substring test `in` *)

\* the characters of the model's names and search terms
Chars == {"a", "A", "b", "B"}

LowerChar(c) ==
    CASE c = "A" -> "a"
      [] c = "B" -> "b"
      [] OTHER   -> c

\* str.lower()
Lower(str) == [i \in 1..Len(str) |-> LowerChar(str[i])]

\* needle in hay
IsSub(needle, hay) ==
    \E k \in 0..(Len(hay) - Len(needle)) :
        \A i \in 1..Len(needle) : hay[k + i] = needle[i]

---------------------------------------------------------------------------
(* The location directory of /consts/locations *)

\* entries of one locations reply: its countries, cities and stations
MaxLocations == 5
\* the names of the directory's cities and stations
Names == { <<"A", "b">>, <<"B", "B">> }

\* A station entry, the n-th of the directory; it carries a full name and an
\* address, or neither.
StationEntry(n, name, fullname) ==
    [name     |-> name,
     id       |-> n,
     fullname |-> fullname,
     address  |-> IF fullname = None THEN None ELSE Some("address")]

\* A city entry, the n-th of the directory, that lists no stations yet.
CityEntry(n, name) == [name |-> name, id |-> 100 + n, stations |-> None]

RECURSIVE CountCities(_)
CountCities(countries) ==
    IF countries = << >> THEN 0
    ELSE Len(Get(Head(countries).cities, << >>)) + CountCities(Tail(countries))

RECURSIVE CountStationsOf(_)
CountStationsOf(cities) ==
    IF cities = << >> THEN 0
    ELSE Len(Get(Head(cities).stations, << >>)) + CountStationsOf(Tail(cities))

RECURSIVE CountStations(_)
CountStations(countries) ==
    IF countries = << >> THEN 0
    ELSE CountStationsOf(Get(Head(countries).cities, << >>))
         + CountStations(Tail(countries))

LocationEntries(countries) ==
    Len(countries) + CountCities(countries) + CountStations(countries)

\* The directory grows by a country that lists no cities yet ...
UpstreamAddsCountry ==
    /\ pc = "start"
    /\ reply.status = "ok"
    /\ reply.kind = "locations"
    /\ LocationEntries(reply.body) < MaxLocations
    /\ reply' = [reply EXCEPT !.body = Append(@, [cities |-> None])]
    /\ UNCHANGED <<routesArg, op, pc, outcome, result, error, requests,
                   stdout, stderr, response>>

\* ... its last country by a city ...
UpstreamAddsCity ==
    /\ pc = "start"
    /\ reply.status = "ok"
    /\ reply.kind = "locations"
    /\ reply.body # << >>
    /\ LocationEntries(reply.body) < MaxLocations
    /\ \E name \in Names :
          LET n      == Len(reply.body)
              cities == Get(reply.body[n].cities, << >>)
              city   == CityEntry(CountCities(reply.body) + 1, name)
          IN  reply' = [reply EXCEPT
                          !.body[n].cities = Some(Append(cities, city))]
    /\ UNCHANGED <<routesArg, op, pc, outcome, result, error, requests,
                   stdout, stderr, response>>

\* ... and its last city by a station.
UpstreamAddsStation ==
    /\ pc = "start"
    /\ reply.status = "ok"
    /\ reply.kind = "locations"
    /\ reply.body # << >>
    /\ reply.body[Len(reply.body)].cities # None
    /\ LocationEntries(reply.body) < MaxLocations
    /\ \E name \in Names, fullname \in {None} \cup {Some(x) : x \in Names} :
          LET n        == Len(reply.body)
              cities   == reply.body[n].cities[1]
              c        == Len(cities)
              stations == Get(cities[c].stations, << >>)
              station  == StationEntry(CountStations(reply.body) + 1,
                                       name, fullname)
          IN  reply' = [reply EXCEPT
                          !.body[n].cities =
                              Some([cities EXCEPT ![c].stations =
                                                Some(Append(stations, station))])]
    /\ UNCHANGED <<routesArg, op, pc, outcome, result, error, requests,
                   stdout, stderr, response>>

---------------------------------------------------------------------------
(* RegioJetAPI.find_station *)

\* the flat record appended for a match
station_record(city, station) ==
    [city       |-> city.name,
     city_id    |-> city.id,
     station    |-> station.name,
     station_id |-> station.id,
     fullname   |-> Get(station.fullname, << >>),
     address    |-> Get(station.address, "N/A")]

\* the test of the else branch, on one station
station_matches(search_lower, station) ==
    \/ IsSub(search_lower, Lower(station.name))
    \/ IsSub(search_lower, Lower(Get(station.fullname, << >>)))

RECURSIVE all_stations(_, _)
\* the for loop of the if branch: every station of the city
all_stations(city, stations) ==
    IF stations = << >> THEN << >>
    ELSE << station_record(city, Head(stations)) >>
         \o all_stations(city, Tail(stations))

RECURSIVE matching_stations(_, _, _)
\* the for loop of the else branch: the stations that match themselves
matching_stations(search_lower, city, stations) ==
    IF stations = << >> THEN << >>
    ELSE LET rest == matching_stations(search_lower, city, Tail(stations))
         IN  IF station_matches(search_lower, Head(stations))
             THEN << station_record(city, Head(stations)) >> \o rest
             ELSE rest

\* search_city with the else lost: a matching city's stations are tested too
search_city_both(search_lower, city) ==
    (IF IsSub(search_lower, Lower(city.name))
     THEN all_stations(city, Get(city.stations, << >>))
     ELSE << >>)
    \o matching_stations(search_lower, city, Get(city.stations, << >>))

\* the body of the loop over cities: one branch or the other
search_city(search_lower, city) ==
    IF IsSub(search_lower, Lower(city.name))
    THEN all_stations(city, Get(city.stations, << >>))
    ELSE matching_stations(search_lower, city, Get(city.stations, << >>))

RECURSIVE search_cities(_, _)
search_cities(search_lower, cities) ==
    IF cities = << >> THEN << >>
    ELSE search_city(search_lower, Head(cities))
         \o search_cities(search_lower, Tail(cities))

RECURSIVE search_countries(_, _)
search_countries(search_lower, locations) ==
    IF locations = << >> THEN << >>
    ELSE search_cities(search_lower, Get(Head(locations).cities, << >>))
         \o search_countries(search_lower, Tail(locations))

\* search_key with the lower() lost
search_key_verbatim(search_term) == search_term

\* search_lower = search_term.lower()
search_key(search_term) == Lower(search_term)

find_station(rep, search_term) ==
    LET l == get_all_locations(rep)
    IN  IF l.raised THEN l
        ELSE [l EXCEPT
                !.value = search_countries(search_key(search_term), l.value)]

---------------------------------------------------------------------------
(* The presentation layer: print_routes and print_delays_summary *)

\* routes of a list handed to print_delays_summary
MaxSummary == 3
\* the largest delay, in minutes, of such a route
MaxDelay == 15

\* _format_datetime: "N/A" for None, the time of day for an ISO time
format_datetime(dt) ==
    IF dt = None THEN [text |-> "N/A", n |-> 0]
    ELSE [text |-> "%H:%M", n |-> dt[1]]

\* _format_delay: the colour and the text of a delay
format_delay(delay) ==
    IF delay = 0 THEN [text |-> "GREEN ON TIME", n |-> 0]
    ELSE IF delay < SIGNIFICANT_DELAY
         THEN [text |-> "YELLOW +{delay} min", n |-> delay]
         ELSE [text |-> "RED +{delay} min", n |-> delay]

\* the lines print_routes prints for the i-th route
route_lines(i, route, show_details) ==
    LET status == format_delay(route.delay)
        dep    == format_datetime(route.departure_time)
        arr    == format_datetime(route.arrival_time)
    IN  << Line("[{i}] Bus/Train {number}",
                IF route.number = None THEN "None" ELSE "",
                Get(route.number, 0)),
           Line("{label}", IF route.label = None THEN "None" ELSE "label", i),
           Line("Status: {delay_str}", status.text, status.n),
           Line("Departure: {dep_time}", dep.text, dep.n) >>
        \o (IF route.departure_platform # None
            THEN << Line(" (Platform {departure_platform})", "",
                         route.departure_platform[1]) >>
            ELSE << >>)
        \o << Line("Arrival: {arr_time}", arr.text, arr.n) >>
        \o (IF route.arrival_platform # None
            THEN << Line(" (Platform {arrival_platform})", "",
                         route.arrival_platform[1]) >>
            ELSE << >>)
        \o (IF show_details
            THEN << Line("Free seats: {free_seats}", "", route.free_seats) >>
                 \o (IF route.vehicle_standard # None
                     THEN << Line("Vehicle: {vehicle_standard}", "", 0) >>
                     ELSE << >>)
            ELSE << >>)
        \o << Line("", "", 0) >>

RECURSIVE routes_lines(_, _, _)
\* the for loop of print_routes, from the i-th route on
routes_lines(i, routes, show_details) ==
    IF routes = << >> THEN << >>
    ELSE route_lines(i, Head(routes), show_details)
         \o routes_lines(i + 1, Tail(routes), show_details)

print_routes(routes, show_details) ==
    IF routes = << >>
    THEN << Line("No routes found.", "", 0) >>
    ELSE << Line("Found {len(routes)} route(s)", "", Len(routes)) >>
         \o routes_lines(1, routes, show_details)

RECURSIVE count_on_time(_)
\* sum(1 for r in routes if r['delay'] == 0)
count_on_time(routes) ==
    IF routes = << >> THEN 0
    ELSE (IF Head(routes).delay = 0 THEN 1 ELSE 0) + count_on_time(Tail(routes))

RECURSIVE sum_delay(_)
\* sum(r['delay'] for r in routes)
sum_delay(routes) ==
    IF routes = << >> THEN 0
    ELSE Head(routes).delay + sum_delay(Tail(routes))

RECURSIVE max_delay(_)
\* max(r['delay'] for r in routes), of a list that is not empty
max_delay(routes) ==
    IF Len(routes) = 1 THEN Head(routes).delay
    ELSE LET m == max_delay(Tail(routes))
         IN  IF Head(routes).delay > m THEN Head(routes).delay ELSE m

\* format_1f that cuts the second decimal off instead of rounding
format_1f_truncated(num, den) == (10 * num) \div den

\* f"{num / den:.1f}" in tenths, for num >= 0 and den > 0: the quotient is
\* rounded to the nearest tenth, a tie to the even one. A tie needs a den that
\* is a multiple of 4, and a quotient in quarters is exact as a float, so for
\* den below 8 this is what the float division and the format print.
format_1f(num, den) ==
    LET q == (10 * num) \div den
        r == (10 * num) % den
    IN  IF 2 * r > den THEN q + 1
        ELSE IF 2 * r < den THEN q
        ELSE IF q % 2 = 0 THEN q ELSE q + 1

print_delays_summary(routes) ==
    IF routes = << >>
    THEN << Line("No routes found.", "", 0) >>
    ELSE LET total   == Len(routes)
             on_time == count_on_time(routes)
             delayed == total - on_time
         IN  << Line("=== DELAY SUMMARY ===", "", 0),
                Line("Total routes: {total}", "", total),
                Line("On time: {on_time}", "", on_time),
                Line("Delayed: {delayed}", "", delayed),
                Line("Average delay: {avg_delay:.1f} minutes", "tenths",
                     format_1f(sum_delay(routes), total)),
                Line("Maximum delay: {max_delay} minutes", "",
                     max_delay(routes)),
                Line("", "", 0) >>

---------------------------------------------------------------------------
(* main of regiojet_api.py, and get_delays and home of app.py *)

banner ==
    << Line("RegioJet API - Karlovy Vary -> Sokolov Route", "", 0),
       Line("Checking route: Karlovy Vary Terminal -> Sokolov Terminal", "", 0),
       Line("Station IDs: {from_station}", "", KARLOVY_VARY_TERMINAL),
       Line("-> {to_station}", "", SOKOLOV_TERMINAL) >>

\* The script run as a process: its exit status, what it wrote to standard
\* output and standard error, and the requests it sent. print writes to
\* standard output; sys.exit(1) writes nothing.
main(rep) ==
    LET r == find_route(rep, KARLOVY_VARY_TERMINAL, SOKOLOV_TERMINAL,
                        ROUTE_LIMIT)
        delayed_routes == delayed_at_least(r.value, SIGNIFICANT_DELAY)
    IN  IF r.raised
        THEN [returncode |-> 1,
              out  |-> banner \o r.printed \o << Line("Error: {e}", r.error, 0) >>,
              err  |-> << >>,
              sent |-> r.sent]
        ELSE [returncode |-> 0,
              out  |-> banner
                       \o print_routes(r.value, TRUE)
                       \o print_delays_summary(r.value)
                       \o (IF delayed_routes # << >>
                           THEN << Line("SIGNIFICANT DELAYS (>=10 min):", "", 0) >>
                                \o print_routes(delayed_routes, FALSE)
                           ELSE << >>),
              err  |-> << >>,
              sent |-> r.sent]

\* json.loads of the script's output: a value only when the whole text is one
\* JSON document, which no text that starts with a printed line is
json_loads(text) ==
    IF text = << >> THEN None
    ELSE IF \A i \in 1..Len(text) : text[i].tag = "{json}"
         THEN Some(text) ELSE None

\* an HTTP response of the front end
Response(status, shape, content) ==
    [status |-> status, shape |-> shape, content |-> content]

OK == 200
INTERNAL_SERVER_ERROR == 500

\* delays_response with the test of the exit status lost
delays_response_unchecked(proc) ==
    IF json_loads(proc.out) # None
    THEN Response(OK, "payload", json_loads(proc.out)[1])
    ELSE Response(OK, "success", proc.out)

\* get_delays, given the process subprocess.run returned
delays_response(proc) ==
    IF proc.returncode = 0
    THEN IF json_loads(proc.out) # None
         THEN Response(OK, "payload", json_loads(proc.out)[1])
         ELSE Response(OK, "success", proc.out)
    ELSE Response(INTERNAL_SERVER_ERROR, "error", proc.err)

\* get_delays when subprocess.run itself raises: str(e) is the message
spawn_error_response ==
    Response(INTERNAL_SERVER_ERROR, "error",
             << Line("{str(e)}", "[Errno 2] No such file or directory", 0) >>)

---------------------------------------------------------------------------
(* The calls *)

\* the variables after a client call that ended as r
Ends(name, args, r) ==
    /\ pc = "start"
    /\ pc' = "done"
    /\ op' = [name |-> name, args |-> args]
    /\ outcome' = IF r.raised THEN "raised" ELSE "returned"
    /\ result' = r.value
    /\ error' = r.error
    /\ requests' = r.sent
    /\ stdout' = r.printed
    /\ UNCHANGED <<reply, routesArg, stderr, response>>

\* the thresholds callers pass to check_delays
Thresholds == {-5, 0, 10, 15}

\* the search terms callers pass to find_station: the names have two
\* characters, and a longer term is in none of them
Terms == UNION { [1..n -> Chars] : n \in 0..2 }

GetArrivals ==
    /\ reply.kind = "routes"
    /\ \E s \in StationIds, l \in {DEFAULT_LIMIT} :
          Ends("get_arrivals", <<s, l>>, get_arrivals(reply, s, l))

GetDepartures ==
    /\ reply.kind = "routes"
    /\ \E s \in StationIds, l \in {DEFAULT_LIMIT} :
          Ends("get_departures", <<s, l>>, get_departures(reply, s, l))

FindRoute ==
    /\ reply.kind = "routes"
    /\ \E f \in StationIds, t \in StationIds :
          Ends("find_route", <<f, t>>, find_route(reply, f, t, ROUTE_LIMIT))

CheckDelays ==
    /\ reply.kind = "routes"
    /\ \E f \in StationIds, t \in StationIds, th \in Thresholds :
          Ends("check_delays", <<f, t, th>>, check_delays(reply, f, t, th))

GetAllLocations ==
    /\ reply.kind = "locations"
    /\ Ends("get_all_locations", << >>, get_all_locations(reply))

FindStation ==
    /\ reply.kind = "locations"
    /\ \E term \in Terms :
          Ends("find_station", << term >>, find_station(reply, term))

\* The caller's route list grows by a route summary.
CallerAddsRoute ==
    /\ pc = "start"
    /\ Len(routesArg) < MaxSummary
    /\ \E d \in 0..MaxDelay :
          routesArg' = Append(routesArg,
              route_summary(Route(Len(routesArg) + 1, Some(d), None), 0, 0))
    /\ UNCHANGED <<reply, op, pc, outcome, result, error, requests,
                   stdout, stderr, response>>

PrintRoutes ==
    /\ pc = "start"
    /\ pc' = "done"
    /\ \E show_details \in BOOLEAN :
          /\ op' = [name |-> "print_routes", args |-> << show_details >>]
          /\ stdout' = print_routes(routesArg, show_details)
    /\ outcome' = "returned"
    /\ UNCHANGED <<reply, routesArg, result, error, requests, stderr,
                   response>>

PrintDelaysSummary ==
    /\ pc = "start"
    /\ pc' = "done"
    /\ op' = [name |-> "print_delays_summary", args |-> << >>]
    /\ stdout' = print_delays_summary(routesArg)
    /\ outcome' = "returned"
    /\ UNCHANGED <<reply, routesArg, result, error, requests, stderr,
                   response>>

\* GET /api/delays: the script is run as a process, or cannot be started
GetDelays ==
    /\ pc = "start"
    /\ pc' = "done"
    /\ reply.kind = "routes"
    /\ \/ LET proc == main(reply)
          IN  /\ op' = [name |-> "get_delays", args |-> << "ran" >>]
              /\ stdout' = proc.out
              /\ stderr' = proc.err
              /\ requests' = proc.sent
              /\ response' = delays_response(proc)
       \/ /\ op' = [name |-> "get_delays", args |-> << "not started" >>]
          /\ response' = spawn_error_response
          /\ UNCHANGED <<stdout, stderr, requests>>
    /\ outcome' = "returned"
    /\ UNCHANGED <<reply, routesArg, result, error>>

\* GET /
Home ==
    /\ pc = "start"
    /\ pc' = "done"
    /\ op' = [name |-> "home", args |-> << >>]
    /\ response' = Response(OK, "text",
          << Line("RegioJet Delays API is running! Go to /api/delays", "", 0) >>)
    /\ outcome' = "returned"
    /\ UNCHANGED <<reply, routesArg, result, error, requests, stdout, stderr>>

---------------------------------------------------------------------------
(* The specifications *)

Idle ==
    /\ pc = "start"
    /\ op = [name |-> "none", args |-> << >>]
    /\ outcome = "none"
    /\ result = << >>
    /\ error = ""
    /\ requests = << >>
    /\ stdout = << >>
    /\ stderr = << >>
    /\ response = Response(0, "none", << >>)

\* the client against the routes endpoints
InitRoutes ==
    /\ reply = [status |-> "ok", kind |-> "routes", body |-> << >>]
    /\ routesArg = << >>
    /\ Idle

NextRoutes ==
    \/ UpstreamAddsRoute
    \/ UpstreamAddsStop
    \/ UpstreamFails
    \/ GetArrivals
    \/ GetDepartures
    \/ FindRoute
    \/ CheckDelays

SpecRoutes == InitRoutes /\ [][NextRoutes]_vars

\* the client against the locations endpoint
InitStations ==
    /\ reply = [status |-> "ok", kind |-> "locations", body |-> << >>]
    /\ routesArg = << >>
    /\ Idle

NextStations ==
    \/ UpstreamAddsCountry
    \/ UpstreamAddsCity
    \/ UpstreamAddsStation
    \/ UpstreamFails
    \/ GetAllLocations
    \/ FindStation

SpecStations == InitStations /\ [][NextStations]_vars

\* the presentation layer on a caller's route list
NextSummary == CallerAddsRoute \/ PrintRoutes \/ PrintDelaysSummary

SpecSummary == InitRoutes /\ [][NextSummary]_vars

\* the front end
NextFront ==
    \/ UpstreamAddsRoute
    \/ UpstreamAddsStop
    \/ UpstreamFails
    \/ GetDelays
    \/ Home

SpecFront == InitRoutes /\ [][NextFront]_vars

\* the whole client: every query operation, against either kind of endpoint
Init == InitRoutes \/ InitStations

Next == NextRoutes \/ NextStations

Spec == Init /\ [][Next]_vars

---------------------------------------------------------------------------
(* The claims *)

\* the k-th smallest member of a finite set of integers
KthOf(S, k) == CHOOSE i \in S : Cardinality({ j \in S : j <= i }) = k

\* seq lists, in order, the members of base at the places of kept
IsSelection(seq, base, kept) ==
    /\ Len(seq) = Cardinality(kept)
    /\ \A k \in 1..Len(seq) : seq[k] = base[KthOf(kept, k)]

CalledAndReturned(name) ==
    /\ pc = "done"
    /\ op.name = name
    /\ outcome = "returned"

\* what find_route returns for the arguments of the call recorded in op
RoutesFound == find_route(reply, op.args[1], op.args[2], ROUTE_LIMIT).value

\* C1: check_delays(from, to, threshold) returns find_route(from, to)'s list
\* unchanged when threshold <= 0, and for a threshold T > 0 exactly the routes
\* of that list with delay >= T, each once and in their original order.
C1_CheckDelaysFilters ==
    CalledAndReturned("check_delays") =>
        LET th == op.args[3]
        IN  IF th <= 0
            THEN result = RoutesFound
            ELSE IsSelection(result, RoutesFound,
                    { i \in 1..Len(RoutesFound) : RoutesFound[i].delay >= th })

\* a positive threshold that keeps one of two routes found
C1_Witness ==
    /\ CalledAndReturned("check_delays")
    /\ op.args[3] > 0
    /\ Len(RoutesFound) = 2
    /\ Len(result) = 1

\* a route's stop entries
StopsOf(route) == Get(route.connectionStations, << >>)

\* C2: every route find_route(from, to) returns lists a stop with the origin's
\* ID at or before a stop with the destination's ID, whatever the upstream
\* API returned.
C2_RoutesRunOriginToDestination ==
    CalledAndReturned("find_route") =>
        \A k \in 1..Len(result) :
            LET st == result[k].all_stations
            IN  \E i, j \in 1..Len(st) :
                    /\ i <= j
                    /\ st[i].stationId = op.args[1]
                    /\ st[j].stationId = op.args[2]

\* C3: find_route returns one summary for exactly the routes of the reply
\* whose stop sequence contains the destination's ID, in the reply's order; a
\* route without that ID, or without any stop sequence, is not in the output.
C3_FindRouteKeepsDestinationRoutes ==
    CalledAndReturned("find_route") =>
        LET board == reply.body
            kept  == { i \in 1..Len(board) :
                         \E j \in 1..Len(StopsOf(board[i])) :
                             StopsOf(board[i])[j].stationId = op.args[2] }
        IN  /\ Len(result) = Cardinality(kept)
            /\ \A k \in 1..Len(result) :
                  LET route == board[KthOf(kept, k)]
                  IN  /\ result[k].number = route.number
                      /\ result[k].all_stations = StopsOf(route)
                      /\ result[k].delay = Get(route.delay, 0)

\* a reply of three routes: one without a stop sequence, one that does not
\* reach the destination, one that does
C3_Witness ==
    /\ CalledAndReturned("find_route")
    /\ Len(reply.body) = 3
    /\ \E i \in 1..3 : reply.body[i].connectionStations = None
    /\ \E i \in 1..3 : /\ StopsOf(reply.body[i]) # << >>
                       /\ \A j \in 1..Len(StopsOf(reply.body[i])) :
                             StopsOf(reply.body[i])[j].stationId # op.args[2]
    /\ Len(result) = 1
    /\ result[1].number # Some(1)

\* the six query operations
QueryOps == {"get_arrivals", "get_departures", "get_all_locations",
             "find_station", "find_route", "check_delays"}

\* C4: a query operation whose HTTP request fails (transport error, error
\* status, body that is not JSON) ends by raising the error: it has sent one
\* request and no more, and returns nothing.
C4_FailedRequestRaisesOnce ==
    (pc = "done" /\ op.name \in QueryOps /\ reply.status \in Failures) =>
        /\ outcome = "raised"
        /\ error # ""
        /\ result = << >>
        /\ Len(requests) = 1

\* a station search that met a body that is not JSON
C4_Witness ==
    /\ pc = "done"
    /\ op.name = "find_station"
    /\ reply.status = "bad_json"
    /\ outcome = "raised"
    /\ stdout # << >>

\* the script ran (subprocess.run returned) for GET /api/delays
ScriptRan == pc = "done" /\ op.name = "get_delays" /\ op.args = << "ran" >>

\* C5 as stated: /api/delays answers 200 with the upstream JSON payload when
\* the upstream query succeeds and 500 with the error envelope when it fails.
C5_BodyIsUpstreamPayload ==
    ScriptRan =>
        IF reply.status = "ok"
        THEN /\ response.status = OK
             /\ response.shape = "payload"
             /\ response.content = reply.body
        ELSE /\ response.status = INTERNAL_SERVER_ERROR
             /\ response.shape = "error"

\* C5 as amended: /api/delays answers 200 with the envelope {status:
\* "success", raw_output: <the text the script printed>} when the upstream
\* query succeeds, and 500 with the envelope {status: "error", message} when
\* the query fails or the script cannot be started; it never answers with
\* the upstream JSON payload itself or with any other status.
C5_SuccessEnvelopeOrError ==
    (pc = "done" /\ op.name = "get_delays") =>
        IF ScriptRan /\ reply.status = "ok"
        THEN /\ response = Response(OK, "success", stdout)
             /\ stdout # << >>
        ELSE /\ response.status = INTERNAL_SERVER_ERROR
             /\ response.shape = "error"

\* the upstream answered with routes and the script printed them
C5_Witness ==
    /\ ScriptRan
    /\ reply.status = "ok"
    /\ reply.body # << >>
    /\ response.status = OK
    /\ Len(response.content) > Len(banner) + 1

\* C6: when the query behind /api/delays fails, the message of the error
\* response carries the text of the original error.
C6_MessageCarriesErrorText ==
    (ScriptRan /\ reply.status \in Failures) =>
        /\ response.shape = "error"
        /\ \E i \in 1..Len(response.content) :
              response.content[i].text = ErrorText(reply.status)

\* the same letter, in either case
SameLetter(c, d) ==
    \/ c = d
    \/ {c, d} = {"a", "A"}
    \/ {c, d} = {"b", "B"}

DifferOnlyInCase(s, t) ==
    /\ Len(s) = Len(t)
    /\ \A i \in 1..Len(s) : SameLetter(s[i], t[i])

\* C7: two search terms that differ only in letter case give find_station
\* the same result list, for every location directory.
C7_SearchIgnoresCase ==
    CalledAndReturned("find_station") =>
        \A other \in Terms :
            DifferOnlyInCase(op.args[1], other) =>
                find_station(reply, other).value = result

\* a term with a capital letter that found a station
C7_Witness ==
    /\ CalledAndReturned("find_station")
    /\ \E i \in 1..Len(op.args[1]) : op.args[1][i] \in {"A", "B"}
    /\ result # << >>
    /\ Len(result) < CountStations(reply.body)

\* the delays of the routes handed to print_delays_summary
DelaysArg == [i \in 1..Len(routesArg) |-> routesArg[i].delay]

RECURSIVE Total(_)
Total(ds) == IF ds = << >> THEN 0 ELSE ds[1] + Total(Tail(ds))

\* the number printed in the line of a template
Printed(tag) ==
    LET i == CHOOSE i \in 1..Len(stdout) : stdout[i].tag = tag
    IN  stdout[i].n

Distance(a, b) == IF a >= b THEN a - b ELSE b - a

\* C8: print_delays_summary prints the number of routes with delay 0, the
\* total minus that number, the largest delay, and the mean delay rounded to
\* one decimal (1, 2, 15 and 6.7 for delays 0, 5, 15); for the empty list it
\* prints the "no routes" notice and nothing else.
C8_SummaryStatistics ==
    (pc = "done" /\ op.name = "print_delays_summary") =>
        IF routesArg = << >>
        THEN stdout = << Line("No routes found.", "", 0) >>
        ELSE LET ds == DelaysArg
                 n  == Len(ds)
             IN  /\ Printed("On time: {on_time}")
                      = Cardinality({ i \in 1..n : ds[i] = 0 })
                 /\ Printed("Delayed: {delayed}")
                      = n - Printed("On time: {on_time}")
                 /\ \A i \in 1..n :
                      ds[i] <= Printed("Maximum delay: {max_delay} minutes")
                 /\ \E i \in 1..n :
                      ds[i] = Printed("Maximum delay: {max_delay} minutes")
                 \* the tenths printed are within half a tenth of the mean
                 /\ 2 * Distance(10 * Total(ds),
                        n * Printed("Average delay: {avg_delay:.1f} minutes"))
                      <= n
                 /\ ds = << 0, 5, 15 >> =>
                      /\ Printed("On time: {on_time}") = 1
                      /\ Printed("Delayed: {delayed}") = 2
                      /\ Printed("Maximum delay: {max_delay} minutes") = 15
                      /\ Printed("Average delay: {avg_delay:.1f} minutes") = 67

\* the summary of delays 0, 5, 15
C8_Witness ==
    /\ pc = "done"
    /\ op.name = "print_delays_summary"
    /\ DelaysArg = << 0, 5, 15 >>
    /\ Len(stdout) = 7

\* C9: the departure_time and departure_platform of a route find_route
\* returns are those of the last stop of its list with the origin's ID, and
\* both are null when no stop has that ID.
C9_LastOriginStopWins ==
    CalledAndReturned("find_route") =>
        \A k \in 1..Len(result) :
            LET st   == result[k].all_stations
                hits == { j \in 1..Len(st) : st[j].stationId = op.args[1] }
            IN  IF hits = {}
                THEN /\ result[k].departure_time = None
                     /\ result[k].departure_platform = None
                ELSE LET last == CHOOSE j \in hits : \A h \in hits : h <= j
                     IN  /\ result[k].departure_time = st[last].departure
                         /\ result[k].departure_platform = st[last].platform

\* a route that stops twice at the origin, with times, before the destination
C9_Witness ==
    /\ CalledAndReturned("find_route")
    /\ op.args[1] # op.args[2]
    /\ Len(result) = 1
    /\ LET st == result[1].all_stations
       IN  /\ Len(st) = 3
           /\ st[1].stationId = op.args[1]
           /\ st[2].stationId = op.args[1]
           /\ st[1].departure # None
           /\ st[2].departure # None
           /\ st[1].departure # st[2].departure
           /\ result[1].departure_time = st[2].departure

RECURSIVE CitiesOf(_)
\* the cities of a directory, in order
CitiesOf(countries) ==
    IF countries = << >> THEN << >>
    ELSE Get(Head(countries).cities, << >>) \o CitiesOf(Tail(countries))

\* how often a station is in the result
Emitted(id) == Cardinality({ k \in 1..Len(result) : result[k].station_id = id })

CityMatches(term, city) == IsSub(Lower(term), Lower(city.name))

StationMatches(term, station) ==
    \/ IsSub(Lower(term), Lower(station.name))
    \/ IsSub(Lower(term), Lower(Get(station.fullname, << >>)))

\* C10: find_station emits every station of a city whose name contains the
\* lower-cased term once, whatever the station's own name; of any other city
\* it emits once exactly the stations whose name or full name contains the
\* term; so no station is emitted twice and none of a matching city is left
\* out (names compared in lower case).
C10_OneBranchPerCity ==
    CalledAndReturned("find_station") =>
        LET term   == op.args[1]
            cities == CitiesOf(reply.body)
        IN  /\ \A c \in 1..Len(cities) :
                  LET stations == Get(cities[c].stations, << >>)
                  IN  \A s \in 1..Len(stations) :
                          Emitted(stations[s].id) =
                              IF \/ CityMatches(term, cities[c])
                                 \/ StationMatches(term, stations[s])
                              THEN 1 ELSE 0
            /\ \A k \in 1..Len(result) :
                  \E c \in 1..Len(cities) :
                      \E s \in 1..Len(Get(cities[c].stations, << >>)) :
                          result[k] = station_record(cities[c],
                                                     cities[c].stations[1][s])

\* a matching city with a station whose own names do not match, beside a
\* city that does not match with a station that does
C10_Witness ==
    /\ CalledAndReturned("find_station")
    /\ LET term   == op.args[1]
           cities == CitiesOf(reply.body)
       IN  /\ Len(cities) = 2
           /\ CityMatches(term, cities[1])
           /\ ~ CityMatches(term, cities[2])
           /\ \E s \in 1..Len(Get(cities[1].stations, << >>)) :
                 /\ ~ StationMatches(term, cities[1].stations[1][s])
                 /\ Emitted(cities[1].stations[1][s].id) = 1
           /\ \E s \in 1..Len(Get(cities[2].stations, << >>)) :
                 /\ StationMatches(term, cities[2].stations[1][s])
                 /\ Emitted(cities[2].stations[1][s].id) = 1

===========================================================================
